---- MODULE Spec2Model ----
(***************************************************************************)
(* A model of pvt's reactive propagation core: controls emit               *)
(* VisualizerControlSignals, VisualizerState stores them and broadcasts    *)
(* its storage, StatefulDisplays ask their Callback whether to recompute.  *)
(***************************************************************************)
EXTENDS Integers, Sequences, FiniteSets, TLC

\* ---------------------------------------------------------------- bounds
\* control values range over 0..MaxValue
MaxValue == 1
\* whitelist / blacklist arguments are lists of at most MaxListLen names
MaxListLen == 2
\* at most MaxOps user operations (control changes, flushes) per behaviour
MaxOps == 3
\* at most MaxBindOps user operations in a behaviour that binds any widgets
MaxBindOps == 1
\* the tick counter's unsigned range is 0..TickModulus-1 (2^64 values in the
\* program)
TickModulus == 4

\* the value every _parameter_cache entry starts with (Python's None); control
\* values are numbers, so it differs from each of them
NoneVal == -1

Values == 0..MaxValue

\* --------------------------------------------------- callables (inspect)
\* A callable's signature: params maps each parameter name to its kind,
\* defaults is the set of parameters that have a default value, isCallback
\* tells an instance of pvt.callback.Callback from a plain function.
ParamKinds == {"POSITIONAL_OR_KEYWORD", "VAR_POSITIONAL", "VAR_KEYWORD"}

\* the names a whitelist or a blacklist is drawn from
ListNames == {"rho", "sigma", "_"}

Func(params, defaults) == [params |-> params, defaults |-> defaults, isCallback |-> FALSE]

\* ------------------------------------------------------------- Callback
\* Callback.Config(): cache_type None, no cached parameters
DefaultConfig == [cache_type |-> "None", cached_parameters |-> <<>>]

RECURSIVE SeqToSet(_)
SeqToSet(s) == IF s = <<>> THEN {} ELSE {Head(s)} \cup SeqToSet(Tail(s))

\* the keys of a dict built from a tuple, in insertion order (first occurrence)
RECURSIVE DictKeys(_, _)
DictKeys(s, seen) ==
    IF s = <<>> THEN <<>>
    ELSE IF Head(s) \in seen THEN DictKeys(Tail(s), seen)
    ELSE <<Head(s)>> \o DictKeys(Tail(s), seen \cup {Head(s)})

\* Callback.__init__: every cached parameter starts at None; the bound
\* should_run attribute is the class's method
Callback(func, config) ==
    [ func |-> func,
      config |-> config,
      parameter_cache |-> [p \in SeqToSet(config.cached_parameters) |-> NoneVal],
      keys |-> DictKeys(config.cached_parameters, {}),
      should_run |-> "should_run" ]

\* no Callback object (the constructor did not run, or raised)
NoCallback == [should_run |-> "nothing"]

\* the loop of Callback._should_run over self._parameter_cache.keys();
\* kwds[k] of a missing key raises KeyError and keeps the updates made so far
RECURSIVE should_run_loop(_, _, _, _)
should_run_loop(keys, cache, kwds, is_dirty) ==
    IF keys = <<>> THEN [raised |-> "none", ret |-> is_dirty, cache |-> cache]
    ELSE LET k == Head(keys) IN
         IF k \notin DOMAIN kwds
         THEN [raised |-> "KeyError", ret |-> FALSE, cache |-> cache]
         ELSE IF cache[k] # kwds[k]
              THEN should_run_loop(Tail(keys), [cache EXCEPT ![k] = kwds[k]], kwds, TRUE)
              ELSE should_run_loop(Tail(keys), cache, kwds, is_dirty)

\* mutant of _should_run: the loop updates the cache but the dirty flag is
\* never set
_should_run_NeverDirty(self, kwds) ==
    LET r == should_run_loop(self.keys, self.parameter_cache, kwds, FALSE)
    IN  [ raised |-> r.raised,
          ret |-> FALSE,
          self |-> [self EXCEPT !.parameter_cache = r.cache] ]

\* mutant of _should_run: the loop returns at the first parameter that differs
RECURSIVE loop_EarlyReturn(_, _, _)
loop_EarlyReturn(keys, cache, kwds) ==
    IF keys = <<>> THEN [raised |-> "none", ret |-> FALSE, cache |-> cache]
    ELSE LET k == Head(keys) IN
         IF k \notin DOMAIN kwds
         THEN [raised |-> "KeyError", ret |-> FALSE, cache |-> cache]
         ELSE IF cache[k] # kwds[k]
              THEN [raised |-> "none", ret |-> TRUE, cache |-> [cache EXCEPT ![k] = kwds[k]]]
              ELSE loop_EarlyReturn(Tail(keys), cache, kwds)

_should_run_EarlyReturn(self, kwds) ==
    LET r == loop_EarlyReturn(self.keys, self.parameter_cache, kwds)
    IN  [ raised |-> r.raised,
          ret |-> r.ret,
          self |-> [self EXCEPT !.parameter_cache = r.cache] ]

\* Callback._should_run
_should_run(self, kwds) ==
    LET r == should_run_loop(self.keys, self.parameter_cache, kwds, FALSE)
    IN  [ raised |-> r.raised,
          ret |-> r.ret,
          self |-> [self EXCEPT !.parameter_cache = r.cache] ]

\* mutant of Callback_should_run: the first call already answers with the
\* dirty-check instead of True
Callback_should_run_FirstChecks(self, kwds) ==
    LET r == _should_run(self, kwds)
    IN  [ raised |-> r.raised,
          ret |-> r.ret,
          self |-> [r.self EXCEPT !.should_run =
                       IF self.config.cache_type = "Fake" THEN "_should_run" ELSE "lambda"] ]

\* Callback.should_run, the method as the class defines it: it rebinds the
\* instance's should_run attribute and returns True
Callback_should_run(self, kwds) ==
    [ raised |-> "none",
      ret |-> TRUE,
      self |-> [self EXCEPT !.should_run =
                   IF self.config.cache_type = "Fake" THEN "_should_run" ELSE "lambda"] ]

\* self.__callback.should_run(**kwargs): whatever the attribute is bound to
call_should_run(self, kwds) ==
    CASE self.should_run = "should_run" -> Callback_should_run(self, kwds)
      [] self.should_run = "lambda" -> [raised |-> "none", ret |-> TRUE, self |-> self]
      [] self.should_run = "_should_run" -> _should_run(self, kwds)

\* Callback.__call__: self._func(**kwds). Python binds the keywords first: a
\* keyword the function does not declare (and no **kwargs to take it), or a
\* declared parameter without default that is missing, is a TypeError. The
\* functions of this model return the sum of their named parameters, a
\* defaulted parameter counting 0 when absent.
RECURSIVE SumOver(_, _)
SumOver(S, f) ==
    IF S = {} THEN 0
    ELSE LET n == CHOOSE m \in S : TRUE IN f[n] + SumOver(S \ {n}, f)

Named(func) ==
    {n \in DOMAIN func.params : func.params[n] = "POSITIONAL_OR_KEYWORD"}

HasVarKeyword(func) == \E n \in DOMAIN func.params : func.params[n] = "VAR_KEYWORD"

\* mutant of Callback_call: a function with **kwargs uses every keyword it is
\* given
Callback_call_UsesAll(self, kwds) ==
    LET func == self.func
        given == DOMAIN kwds
    IN  IF /\ (given \subseteq Named(func) \/ HasVarKeyword(func))
           /\ (Named(func) \ func.defaults) \subseteq given
        THEN [raised |-> "none", data |-> SumOver(given, kwds)]
        ELSE [raised |-> "TypeError", data |-> NoneVal]

Callback_call(self, kwds) ==
    LET func == self.func
        given == DOMAIN kwds
    IN  IF /\ (given \subseteq Named(func) \/ HasVarKeyword(func))
           /\ (Named(func) \ func.defaults) \subseteq given
        THEN [raised |-> "none", data |-> SumOver(Named(func) \cap given, kwds)]
        ELSE [raised |-> "TypeError", data |-> NoneVal]

\* ---------------------------------------------------- use_parameter_cache
\* the blacklist argument: a list of names, or the literal "all"
BlacklistAll == [all |-> TRUE, names |-> <<>>]

BlacklistOf(names) == [all |-> FALSE, names |-> names]

\* Python truthiness of the two arguments
Truthy(blacklist) == blacklist.all \/ blacklist.names # <<>>

\* mutant of callback_paramset: the kind of a parameter is not looked at
callback_paramset_AllKinds(func) == DOMAIN func.params

\* the named, non-variadic parameters of func
callback_paramset(func) ==
    {n \in DOMAIN func.params : func.params[n] \notin {"VAR_POSITIONAL", "VAR_KEYWORD"}}

\* mutant of check_param_name: nothing is checked
check_param_name_NoCheck(p, paramset, direct) == "none"

\* check_param_name: the message is built from func.__qualname__, where func
\* is the argument of use_parameter_cache itself: the function when it was
\* passed directly, None (so AttributeError) when use_parameter_cache was
\* called with keywords only and its result applied to the function
check_param_name(p, paramset, direct) ==
    IF p \in paramset THEN "none"
    ELSE IF direct THEN "ValueError" ELSE "AttributeError"

\* for p in names: check_param_name(p, paramset)
RECURSIVE check_param_names(_, _, _)
check_param_names(names, paramset, direct) ==
    IF names = <<>> THEN "none"
    ELSE IF check_param_name(Head(names), paramset, direct) # "none"
         THEN check_param_name(Head(names), paramset, direct)
         ELSE check_param_names(Tail(names), paramset, direct)

Filter(s, excluded) ==
    LET keep(p) == p \notin excluded IN SelectSeq(s, keep)

Produced(func, cached_parameters) ==
    [ raised |-> "none",
      callback |-> Callback(func, [cache_type |-> "Fake",
                                   cached_parameters |-> cached_parameters]) ]

Raised(error) == [raised |-> error, callback |-> NoCallback]

\* the inner decorator(func). order is the order in which Python iterates the
\* set callback_paramset (any order; the same for both iterations of one call)
decorator(func, whitelist, blacklist, direct, order) ==
    IF func.isCallback THEN Raised("ValueError")
    ELSE LET paramset == callback_paramset(func) IN
         IF ~(whitelist # <<>> \/ Truthy(blacklist))
         THEN Produced(func, order)
         ELSE IF whitelist # <<>>
         THEN IF check_param_names(whitelist, paramset, direct) # "none"
              THEN Raised(check_param_names(whitelist, paramset, direct))
              ELSE Produced(func, whitelist)
         ELSE IF blacklist.all
         THEN Produced(func, order)
         ELSE IF check_param_names(blacklist.names, paramset, direct) # "none"
              THEN Raised(check_param_names(blacklist.names, paramset, direct))
              ELSE Produced(func, Filter(order, SeqToSet(blacklist.names)))

\* mutant of use_parameter_cache: the assertion on the two strategies is gone
use_parameter_cache_NoAssert(func, whitelist, blacklist, direct, order) ==
    decorator(func, whitelist, blacklist, direct, order)

\* use_parameter_cache(func, whitelist=..., blacklist=...) applied to func,
\* directly or as @use_parameter_cache(...)
use_parameter_cache(func, whitelist, blacklist, direct, order) ==
    IF whitelist # <<>> /\ Truthy(blacklist)
    THEN Raised("AssertionError")
    ELSE decorator(func, whitelist, blacklist, direct, order)

\* the orders in which a set can be iterated
Orders(S) ==
    {s \in [1..Cardinality(S) -> S] : \A i, j \in DOMAIN s : i # j => s[i] # s[j]}

\* ------------------------------------------------------------ the state
ControlIds == {"c_rho", "c_sigma"}

DisplayIds == {"d1", "d2"}

VARIABLES
    controls,     \* each StatefulControl: key, value(), and the number of
                  \* connections of on_control_signal_changed to modify_state
    storage,      \* VisualizerState._storage
    subscribers,  \* the slots connected to state_changed, in connection order
    displays,     \* each StatefulDisplay: its Callback and what it has done
    callbacks,    \* the Callback instances
    emitted,      \* number of state_changed emissions so far
    nmodify,      \* number of modify_state calls so far
    nflush,       \* number of flush calls so far
    raised,       \* the exception the last operation ended with, or "none"
    ops,          \* number of user operations so far
    deco,         \* one use_parameter_cache call: its arguments and result
    perf,         \* perflog: flag_should_log and the number of lines printed
    idmanager,    \* the IdManager class, its singleton and what it returned
    trace         \* when recording: the events of the last handler, in order,
                  \* and the value of the latest signal passed to modify_state
                  \* under each key

vars == <<controls, storage, subscribers, displays, callbacks, emitted,
          nmodify, nflush, raised, ops, deco, perf, idmanager, trace>>

EmptyDict == [k \in {} |-> 0]

\* the hub and the widgets, threaded through a handler's calls
World ==
    [ controls |-> controls, storage |-> storage, subscribers |-> subscribers,
      displays |-> displays, callbacks |-> callbacks, emitted |-> emitted,
      nmodify |-> nmodify, nflush |-> nflush, perf |-> perf,
      trace |-> [trace EXCEPT !.events = <<>>] ]

Commit(w) ==
    /\ controls' = w.controls
    /\ storage' = w.storage
    /\ subscribers' = w.subscribers
    /\ displays' = w.displays
    /\ callbacks' = w.callbacks
    /\ emitted' = w.emitted
    /\ nmodify' = w.nmodify
    /\ nflush' = w.nflush
    /\ perf' = w.perf
    /\ trace' = w.trace
    /\ UNCHANGED idmanager

\* an event of a handler, appended to the trace when it is recording
Event(event, of) == [event |-> event, of |-> of]

Log(w, e) == IF w.trace.on THEN [w EXCEPT !.trace.events = Append(@, e)] ELSE w

NoTrace == [on |-> FALSE, events |-> <<>>, latest |-> EmptyDict]

\* recording from now on: no event yet, no signal passed to modify_state yet
NewTrace == [on |-> TRUE, events |-> <<>>, latest |-> EmptyDict]

\* ---------------------------------------------------------------- perflog
\* the events of the decorated methods: StatefulDisplay.__compute_data,
\* StatefulDisplay.__render_data and StatefulControl._on_change
Events == {"callback-compute", "pyqtgraph-render", "full-interaction"}

\* flag_should_log = os.getenv("VIEWER_DEBUG") == "1", read when the methods
\* are decorated; nothing printed yet
NewPerflog(flag_should_log) ==
    [flag_should_log |-> flag_should_log, printed |-> [e \in Events |-> 0]]

\* mutant of wrapper: the result of the function is not returned
wrapper_DropsResult(w, event, out) ==
    IF out.raised # "none" THEN [w |-> w, out |-> out]
    ELSE [ w |-> [w EXCEPT !.perf.printed[event] = @ + 1],
           out |-> [raised |-> "none", data |-> NoneVal] ]

\* perflog's wrapper around func, after func(*args, **kwargs) ended with out
\* in world w: an exception of func propagates, else one line is printed and
\* the result returned
wrapper(w, event, out) ==
    IF out.raised # "none" THEN [w |-> w, out |-> out]
    ELSE [w |-> [w EXCEPT !.perf.printed[event] = @ + 1], out |-> out]

\* perflog(event=...)(func): func itself unless flag_should_log
perflog(w, event, out) ==
    IF w.perf.flag_should_log THEN wrapper(w, event, out) ELSE [w |-> w, out |-> out]

\* ------------------------------------------------------- StatefulDisplay
\* StatefulDisplay.__init__ around callback c; made_with remembers how the
\* callback was built ("plain", "default", "whitelist", "blacklist", "all")
NewDisplay(c, made_with) ==
    [ callback |-> c, made_with |-> made_with,
      nsnap |-> 0, ncompute |-> 0, nrender |-> 0, nraised |-> 0,
      rendered |-> NoneVal, lastsnap |-> EmptyDict, missed |-> 0,
      cokeys |-> {}, lacked |-> {} ]

\* StatefulDisplay.on_viewer_state_changed(kwargs_as_dict) of display d:
\* should_run, then __compute_data and __render_data, both decorated by
\* perflog. lacked collects the keys of cokeys that a snapshot did not have.
on_viewer_state_changed(w, d, kwargs) ==
    LET c == w.displays[d].callback
        r == call_should_run(w.callbacks[c], kwargs)
        seen == [w.displays[d] EXCEPT
                    !.nsnap = @ + 1, !.lastsnap = kwargs,
                    !.lacked = @ \cup (w.displays[d].cokeys \ DOMAIN kwargs)]
        w1 == Log(Log([w EXCEPT !.callbacks[c] = r.self], Event("begin", d)),
                  Event("should_run", d))
        computed == perflog(Log(w1, Event("compute", d)), "callback-compute",
                            Callback_call(r.self, kwargs))
        shown == perflog(Log(computed.w, Event("render", d)), "pyqtgraph-render",
                         [raised |-> "none"])
    IN  IF r.raised # "none"
        THEN Log([w1 EXCEPT !.displays[d] = [seen EXCEPT !.nraised = @ + 1]],
                 Event("raise", d))
        ELSE IF ~r.ret
        THEN Log([w1 EXCEPT !.displays[d] = seen], Event("end", d))
        ELSE IF computed.out.raised # "none"
        THEN Log([computed.w EXCEPT !.displays[d] = [seen EXCEPT !.nraised = @ + 1]],
                 Event("raise", d))
        ELSE Log([shown.w EXCEPT !.displays[d] =
                     [seen EXCEPT !.ncompute = @ + 1, !.nrender = @ + 1,
                                  !.rendered = computed.out.data]],
                 Event("end", d))

\* ------------------------------------------------------- VisualizerState
\* state_changed.emit(self._storage): every connected slot, in connection
\* order, each to completion (an exception in a slot is reported by the
\* binding and the next slot is called)
RECURSIVE deliver(_, _, _)
deliver(w, slots, snapshot) ==
    IF slots = <<>> THEN w
    ELSE deliver(on_viewer_state_changed(w, Head(slots), snapshot), Tail(slots), snapshot)

\* mutant of state_changed_emit: the slots are called after emit has returned
state_changed_emit_Queued(w) ==
    deliver(Log(Log([w EXCEPT !.emitted = @ + 1], Event("emit", "state_changed")),
                Event("emitted", "state_changed")),
            w.subscribers, w.storage)

state_changed_emit(w) ==
    Log(deliver(Log([w EXCEPT !.emitted = @ + 1], Event("emit", "state_changed")),
                w.subscribers, w.storage),
        Event("emitted", "state_changed"))

\* mutant of Put: a key that is already stored keeps its value
Put_KeepStored(dict, key, value) ==
    [k \in DOMAIN dict \cup {key} |-> IF k \in DOMAIN dict THEN dict[k] ELSE value]

\* self._storage[key] = value
Put(dict, key, value) ==
    [k \in DOMAIN dict \cup {key} |-> IF k = key THEN value ELSE dict[k]]

\* mutant of modify_state: no broadcast when the stored value does not change
modify_state_Dedup(w, arg) ==
    IF arg.key \in DOMAIN w.storage /\ w.storage[arg.key] = arg.value
    THEN [w EXCEPT !.nmodify = @ + 1]
    ELSE state_changed_emit([w EXCEPT !.storage = Put(w.storage, arg.key, arg.value),
                                      !.nmodify = @ + 1])

\* mutant of modify_state: the write is undone when a display raised
modify_state_Rollback(w, arg) ==
    LET sent == state_changed_emit(Log([w EXCEPT !.storage = Put(w.storage, arg.key, arg.value),
                                                 !.nmodify = @ + 1],
                                       Event("write", arg.key)))
    IN  IF \E d \in DOMAIN w.displays : sent.displays[d].nraised > w.displays[d].nraised
        THEN [sent EXCEPT !.storage = w.storage]
        ELSE sent

\* mutant of modify_state: the broadcast is emitted before the write
modify_state_EmitFirst(w, arg) ==
    LET sent == state_changed_emit([w EXCEPT !.nmodify = @ + 1])
    IN  [sent EXCEPT !.storage = Put(w.storage, arg.key, arg.value)]

\* the signal arg was passed to modify_state
Passed(w, arg) ==
    IF w.trace.on THEN [w EXCEPT !.trace.latest = Put(@, arg.key, arg.value)] ELSE w

\* VisualizerState.modify_state(arg)
modify_state(w, arg) ==
    state_changed_emit(Log([Passed(w, arg) EXCEPT
                                !.storage = Put(w.storage, arg.key, arg.value),
                                !.nmodify = @ + 1],
                           Event("write", arg.key)))

\* mutant of flush: the storage is emptied once it has been broadcast
flush_Clears(w) ==
    [state_changed_emit([w EXCEPT !.nflush = @ + 1]) EXCEPT !.storage = EmptyDict]

\* mutant of flush: the snapshot is emitted twice
flush_Twice(w) == state_changed_emit(state_changed_emit([w EXCEPT !.nflush = @ + 1]))

\* VisualizerState.flush()
flush(w) == state_changed_emit([w EXCEPT !.nflush = @ + 1])

\* mutant of VisualizerControlSignal: no check of the key
VisualizerControlSignal_NoCheck(key, value) ==
    [raised |-> "none", key |-> key, value |-> value]

\* VisualizerControlSignal(key, value): the dataclass's __init__, then
\* __post_init__, which raises ValueError when the key is empty
VisualizerControlSignal(key, value) ==
    IF key = ""
    THEN [raised |-> "ValueError", key |-> "", value |-> NoneVal]
    ELSE [raised |-> "none", key |-> key, value |-> value]

\* ------------------------------------------------------- StatefulControl
\* query_control_signal: VisualizerControlSignal(key, value()); __post_init__
\* raises ValueError on an empty key
query_control_signal(w, c) ==
    VisualizerControlSignal(w.controls[c].key, w.controls[c].value)

\* on_control_signal_changed.emit(signal): one modify_state call per connection
RECURSIVE signal_emit(_, _, _)
signal_emit(w, n, signal) ==
    IF n = 0 THEN w ELSE signal_emit(modify_state(w, signal), n - 1, signal)

\* StatefulControl._on_change, decorated by perflog
_on_change(w, c) ==
    LET signal == query_control_signal(w, c)
        out == IF signal.raised # "none" THEN [raised |-> signal.raised, w |-> w]
               ELSE [raised |-> "none",
                     w |-> signal_emit(w, w.controls[c].connections, signal)]
    IN  [raised |-> out.raised, w |-> perflog(out.w, "full-interaction", out).w]

\* ------------------------------------------------------ StatefulAnimator
\* int(round(1e3 / ups)): Python rounds to the nearest integer, a tie to the
\* even one
RoundHalfEven(n, d) ==
    LET q == n \div d
        r == n % d
    IN  IF 2 * r < d THEN q
        ELSE IF 2 * r > d THEN q + 1
        ELSE IF q % 2 = 0 THEN q ELSE q + 1

\* mutant of NewAnimator: the timer is started whatever auto_start is
NewAnimator_AlwaysStarts(ups, auto_start, promotion) ==
    [ key |-> "animation_tick", value |-> 0, connections |-> 0,
      ups |-> ups,
      tick_time |-> RoundHalfEven(1000, ups),
      timer |-> [active |-> TRUE, interval |-> RoundHalfEven(1000, ups)],
      auto_start |-> auto_start,
      promotion |-> promotion,
      last_op |-> "__init__",
      prev_op |-> "__init__",
      toggled |-> FALSE,
      before |-> [value |-> 0, active |-> TRUE] ]

\* StatefulAnimator.__init__(ups, auto_start): the tick is np.uint64(0), the
\* QTimer is started when auto_start. promotion is how the installed numpy
\* adds a Python int to a numpy unsigned scalar: "weak" keeps the unsigned
\* type (and wraps), "legacy" moves to a signed or floating type (and does
\* not). last_op, prev_op and before remember the last two operations called
\* and the tick and timer state the last one started from; toggled tells
\* whether pause_play was called an odd number of times.
NewAnimator(ups, auto_start, promotion) ==
    [ key |-> "animation_tick", value |-> 0, connections |-> 0,
      ups |-> ups,
      tick_time |-> RoundHalfEven(1000, ups),
      timer |-> [active |-> auto_start,
                 interval |-> IF auto_start THEN RoundHalfEven(1000, ups) ELSE 0],
      auto_start |-> auto_start,
      promotion |-> promotion,
      last_op |-> "__init__",
      prev_op |-> "__init__",
      toggled |-> FALSE,
      before |-> [value |-> 0, active |-> auto_start] ]

\* mutant of TickPlus: the unsigned tick stops at the ends of its range
TickPlus_Saturating(animator, delta) ==
    IF animator.promotion = "weak"
    THEN IF animator.value + delta < 0 THEN 0
         ELSE IF animator.value + delta >= TickModulus THEN TickModulus - 1
         ELSE animator.value + delta
    ELSE animator.value + delta

\* self._animation_tick += delta (delta a Python int) or += np.uintp(delta)
TickPlus(animator, delta) ==
    IF animator.promotion = "weak"
    THEN (animator.value + delta) % TickModulus
    ELSE animator.value + delta

\* operation op of animator a has run; old is the animator it started from
Noted(w, a, op, old) ==
    [w EXCEPT !.controls[a].last_op = op,
              !.controls[a].prev_op = old.last_op,
              !.controls[a].toggled = IF op = "pause_play" THEN ~old.toggled ELSE old.toggled,
              !.controls[a].before = [value |-> old.value, active |-> old.timer.active]]

\* the operation op of animator a has set the tick to value: _on_change
\* follows
Ticked(w, a, op, value) ==
    LET r == _on_change([w EXCEPT !.controls[a].value = value], a)
    IN  [raised |-> r.raised, w |-> Noted(r.w, a, op, w.controls[a])]

\* mutant of on_tick: the signal is emitted before the tick is incremented
on_tick_EmitsFirst(w, a) ==
    LET r == _on_change(w, a)
    IN  [ raised |-> r.raised,
          w |-> Noted([r.w EXCEPT !.controls[a].value = TickPlus(w.controls[a], 1)],
                      a, "on_tick", w.controls[a]) ]

\* StatefulAnimator.on_tick
on_tick(w, a) == Ticked(w, a, "on_tick", TickPlus(w.controls[a], 1))

\* mutant of forward: the tick is incremented and no signal emitted
forward_Unsignalled(w, a) ==
    [ raised |-> "none",
      w |-> Noted([w EXCEPT !.controls[a].value = TickPlus(w.controls[a], 1)],
                  a, "forward", w.controls[a]) ]

\* StatefulAnimator.forward
forward(w, a) == Ticked(w, a, "forward", TickPlus(w.controls[a], 1))

\* mutant of reverse: the body of forward, left as copied
reverse_AsForward(w, a) == Ticked(w, a, "reverse", TickPlus(w.controls[a], 1))

\* StatefulAnimator.reverse
reverse(w, a) == Ticked(w, a, "reverse", TickPlus(w.controls[a], -1))

\* mutant of reset: the tick is set but the change is not announced
reset_Silent(w, a) ==
    [ raised |-> "none",
      w |-> Noted([w EXCEPT !.controls[a].value = 0], a, "reset", w.controls[a]) ]

\* StatefulAnimator.reset
reset(w, a) == Ticked(w, a, "reset", 0)

\* mutant of pause_play: the control's signal is emitted after the toggle
pause_play_Emits(w, a) ==
    LET animator == w.controls[a]
        toggled == [w EXCEPT !.controls[a].timer =
                        IF animator.timer.active
                        THEN [active |-> FALSE, interval |-> animator.timer.interval]
                        ELSE [active |-> TRUE, interval |-> animator.tick_time]]
    IN  Noted(_on_change(toggled, a).w, a, "pause_play", animator)

\* mutant of pause_play: the timer is started whatever its state
pause_play_AlwaysStarts(w, a) ==
    LET animator == w.controls[a] IN
    Noted([w EXCEPT !.controls[a].timer =
                        [active |-> TRUE, interval |-> animator.tick_time]],
          a, "pause_play", animator)

\* StatefulAnimator.pause_play: stop() leaves the interval, start(msec) sets it
pause_play(w, a) ==
    LET animator == w.controls[a] IN
    Noted([w EXCEPT !.controls[a].timer =
                        IF animator.timer.active
                        THEN [active |-> FALSE, interval |-> animator.timer.interval]
                        ELSE [active |-> TRUE, interval |-> animator.tick_time]],
          a, "pause_play", animator)

\* ------------------------------------------------------- configure_state
\* the loop over the controls: the key check, connect, and the push of the
\* control's current signal
RECURSIVE wire_controls(_, _, _)
wire_controls(w, cs, keyset) ==
    IF cs = <<>> THEN [raised |-> "none", w |-> w]
    ELSE LET c == Head(cs)
             signal == query_control_signal(w, c)
         IN  IF w.controls[c].key \in keyset
             THEN [raised |-> "ValueError", w |-> w]
             ELSE IF signal.raised # "none"
             THEN [raised |-> signal.raised,
                   w |-> [w EXCEPT !.controls[c].connections = @ + 1]]
             ELSE wire_controls(
                      modify_state([w EXCEPT !.controls[c].connections = @ + 1], signal),
                      Tail(cs), keyset \cup {w.controls[c].key})

\* the loop over the displays: state.state_changed.connect(d.on_viewer_state_changed);
\* cokeys remembers the keys of the controls of the same call
RECURSIVE wire_displays(_, _, _)
wire_displays(w, ds, cs) ==
    IF ds = <<>> THEN w
    ELSE wire_displays(
             [w EXCEPT !.subscribers = Append(@, Head(ds)),
                       !.displays[Head(ds)].missed = w.emitted,
                       !.displays[Head(ds)].cokeys = {w.controls[cs[i]].key : i \in DOMAIN cs}],
             Tail(ds), cs)

\* mutant of configure_state: the displays are connected before the controls
configure_state_DisplaysFirst(w, ds, cs) ==
    LET wired == wire_controls(wire_displays(w, ds, cs), cs, {}) IN
    IF wired.raised # "none" THEN wired
    ELSE [raised |-> "none", w |-> flush(wired.w)]

\* mutant of configure_state: the flush comes before the displays are wired
configure_state_FlushFirst(w, ds, cs) ==
    LET wired == wire_controls(w, cs, {}) IN
    IF wired.raised # "none" THEN wired
    ELSE [raised |-> "none", w |-> wire_displays(flush(wired.w), ds, cs)]

\* configure_state(displays, controls, state) on the hub of this context
configure_state(w, ds, cs) ==
    LET wired == wire_controls(w, cs, {}) IN
    IF wired.raised # "none" THEN wired
    ELSE [raised |-> "none", w |-> flush(wire_displays(wired.w, ds, cs))]

\* -------------------------------------------------------------- IdManager
\* the digits of the identifier: 8 in the program, which 16^8 identifiers fill;
\* scaled down so that the identifiers of a run can fill it
IdWidth == 1

HexDigits == <<"0", "1", "2", "3", "4", "5", "6", "7",
               "8", "9", "a", "b", "c", "d", "e", "f">>

\* format(id, "x"): the lowercase hexadecimal digits of id, most significant
\* first
RECURSIVE Hex(_)
Hex(n) ==
    IF n < 16 THEN <<HexDigits[n + 1]>>
    ELSE Append(Hex(n \div 16), HexDigits[(n % 16) + 1])

\* the 0 fill of a format spec to a minimum width
RECURSIVE ZeroFill(_, _)
ZeroFill(digits, width) ==
    IF Len(digits) >= width THEN digits ELSE ZeroFill(<<"0">> \o digits, width)

\* mutant of Format08x: the identifier is cut to its last IdWidth digits
Format08x_Truncated(id) ==
    LET digits == ZeroFill(Hex(id), IdWidth)
    IN  SubSeq(digits, Len(digits) - IdWidth + 1, Len(digits))

\* f"{id:08x}"
Format08x(id) == ZeroFill(Hex(id), IdWidth)

\* the class IdManager when the module is loaded: counter = 0 on the class, no
\* singleton attribute yet; issued lists what generate_identifier returned
IdManagerClass ==
    [has_singleton |-> FALSE, class_counter |-> 0, counter |-> NoneVal, issued |-> <<>>]

\* IdManager.__new__: the singleton, made on the first call
IdManager_new(m) == IF ~m.has_singleton THEN [m EXCEPT !.has_singleton = TRUE] ELSE m

\* IdManager.generate_identifier on the singleton: self.counter is the
\* instance's attribute once it is set, the class's before
generate_identifier(m) ==
    LET id == IF m.counter = NoneVal THEN m.class_counter ELSE m.counter
    IN  [ self |-> [m EXCEPT !.counter = id + 1, !.issued = Append(@, Format08x(id))],
          ret |-> Format08x(id) ]

\* the class after n widgets were constructed: StatefulControl.__init__ and
\* StatefulDisplay.__init__ each call IdManager().generate_identifier()
RECURSIVE Constructed(_)
Constructed(n) ==
    IF n = 0 THEN IdManagerClass
    ELSE generate_identifier(IdManager_new(Constructed(n - 1))).self

\* ------------------------------------------------- the objects of a run
\* def callback_a(rho, sigma, **_)
callback_a ==
    Func([n \in {"rho", "sigma", "_"} |->
             IF n = "_" THEN "VAR_KEYWORD" ELSE "POSITIONAL_OR_KEYWORD"], {})

\* def callback_b(sigma, **_)
callback_b ==
    Func([n \in {"sigma", "_"} |->
             IF n = "_" THEN "VAR_KEYWORD" ELSE "POSITIONAL_OR_KEYWORD"], {})

\* def callback(**_), the static image's callback
callback_static == Func([n \in {"_"} |-> "VAR_KEYWORD"], {})

DisplayFuncs == {callback_a, callback_b, callback_static}

\* the use_parameter_cache arguments the displays of a run are built with
CacheArgs ==
    { [made_with |-> "default", whitelist |-> <<>>, blacklist |-> BlacklistOf(<<>>)],
      [made_with |-> "whitelist", whitelist |-> <<"sigma">>, blacklist |-> BlacklistOf(<<>>)],
      [made_with |-> "blacklist", whitelist |-> <<>>, blacklist |-> BlacklistOf(<<"rho">>)],
      [made_with |-> "all", whitelist |-> <<>>, blacklist |-> BlacklistAll] }

\* the callbacks a display can be constructed with: a plain function, which
\* StatefulDisplay.__init__ wraps in Callback(func=callback), or the result of
\* a use_parameter_cache call that did not raise
Constructions ==
    {[callback |-> Callback(f, DefaultConfig), made_with |-> "plain"] : f \in DisplayFuncs}
    \cup
    UNION { UNION { { [callback |-> use_parameter_cache(f, a.whitelist, a.blacklist,
                                                        TRUE, order).callback,
                       made_with |-> a.made_with]
                      : order \in Orders(callback_paramset(f)) }
                    : a \in {b \in CacheArgs :
                               \A order \in Orders(callback_paramset(f)) :
                                  use_parameter_cache(f, b.whitelist, b.blacklist,
                                                      TRUE, order).raised = "none"} }
            : f \in DisplayFuncs }

\* StatefulTrackbar(key): key, the initial value, not connected
NewControl(key, value) == [key |-> key, value |-> value, connections |-> 0]

KeyOf(c) == IF c = "c_rho" THEN "rho" ELSE "sigma"

\* TrackbarConfig.initial_value: rho starts inside its range, sigma at its start
InitialValue(c) == IF c = "c_rho" THEN 1 ELSE 0

NoDecoration == [phase |-> "idle"]

\* one context: two trackbars rho and sigma, two displays, a fresh hub
Init ==
    /\ controls = [c \in ControlIds |-> NewControl(KeyOf(c), InitialValue(c))]
    /\ \E made \in [DisplayIds -> Constructions] :
          /\ callbacks = [d \in DisplayIds |-> made[d].callback]
          /\ displays = [d \in DisplayIds |-> NewDisplay(d, made[d].made_with)]
    /\ storage = EmptyDict
    /\ subscribers = <<>>
    /\ emitted = 0
    /\ nmodify = 0
    /\ nflush = 0
    /\ raised = "none"
    /\ ops = 0
    /\ deco = NoDecoration
    /\ perf = NewPerflog(FALSE)
    /\ idmanager = Constructed(Cardinality(DOMAIN controls) + Cardinality(DOMAIN displays))
    /\ trace = NoTrace

\* whether configure_state has run on this context's widgets
Bound ==
    \/ subscribers # <<>>
    \/ \E c \in DOMAIN controls : controls[c].connections > 0

\* VisualizerContext.__init__: configure_state over the widgets found in the
\* layout, once per context
ConfigureState(ds, cs) ==
    /\ ~Bound
    /\ LET r == configure_state(World, ds, cs) IN
          /\ Commit(r.w)
          /\ raised' = r.raised
    /\ UNCHANGED <<ops, deco>>

\* the user moves control c to value v: the widget's value changes and
\* _on_change emits the control's signal (the widgets are shown, and the hub
\* exists, once the context is constructed)
ControlChange(c, v) ==
    /\ Bound
    /\ ops < MaxOps
    /\ LET r == _on_change([World EXCEPT !.controls[c].value = v], c) IN
          /\ Commit(r.w)
          /\ raised' = r.raised
    /\ ops' = ops + 1
    /\ UNCHANGED deco

\* state.flush()
Flush ==
    /\ Bound
    /\ ops < MaxOps
    /\ Commit(flush(World))
    /\ raised' = "none"
    /\ ops' = ops + 1
    /\ UNCHANGED deco

Next ==
    \/ \E ds \in Orders(DisplayIds), cs \in Orders(ControlIds) : ConfigureState(ds, cs)
    \/ \E c \in ControlIds, v \in Values : ControlChange(c, v)
    \/ Flush

Spec == Init /\ [][Next]_vars

\* the lists of distinct widgets a layout can hold
Lists(S) == UNION {Orders(T) : T \in SUBSET S}

\* ------------------------------------------------ callback signatures
\* the callbacks of the displays: def f(...) over the parameters rho and
\* sigma, with and without **_ (demo.py's callbacks all end with **_)
SignatureFuncs ==
    { Func([n \in named \cup (IF kw THEN {"_"} ELSE {}) |->
               IF n = "_" THEN "VAR_KEYWORD" ELSE "POSITIONAL_OR_KEYWORD"], {}) :
         named \in SUBSET {"rho", "sigma"}, kw \in BOOLEAN }

\* one context as in Init, the displays built on plain callbacks of every
\* signature, the events recorded
InitCallbacks ==
    /\ controls = [c \in ControlIds |-> NewControl(KeyOf(c), InitialValue(c))]
    /\ \E funcs \in [DisplayIds -> SignatureFuncs] :
          /\ callbacks = [d \in DisplayIds |-> Callback(funcs[d], DefaultConfig)]
          /\ displays = [d \in DisplayIds |-> NewDisplay(d, "plain")]
    /\ storage = EmptyDict
    /\ subscribers = <<>>
    /\ emitted = 0
    /\ nmodify = 0
    /\ nflush = 0
    /\ raised = "none"
    /\ ops = 0
    /\ deco = NoDecoration
    /\ perf = NewPerflog(FALSE)
    /\ idmanager = Constructed(Cardinality(DOMAIN controls) + Cardinality(DOMAIN displays))
    /\ trace = NewTrace

SpecCallbacks == InitCallbacks /\ [][Next]_vars

\* ---------------------------------------------------- perflog in a context
\* def f(sigma), which raises on a snapshot that has rho
callback_strict == Func([n \in {"sigma"} |-> "POSITIONAL_OR_KEYWORD"], {})

\* one context as in Init with VIEWER_DEBUG set to "1" or not before pvt is
\* imported; a display whose callback renders or raises, a display with or
\* without a cache; the events recorded
InitPerflog ==
    /\ controls = [c \in ControlIds |-> NewControl(KeyOf(c), InitialValue(c))]
    /\ \E f \in {callback_a, callback_strict}, cached \in BOOLEAN :
          /\ callbacks = [d \in DisplayIds |->
                             IF d = "d1" THEN Callback(f, DefaultConfig)
                             ELSE IF cached
                             THEN use_parameter_cache(callback_b, <<>>, BlacklistOf(<<>>),
                                                      TRUE, <<"sigma">>).callback
                             ELSE Callback(callback_b, DefaultConfig)]
          /\ displays = [d \in DisplayIds |->
                            NewDisplay(d, IF d = "d2" /\ cached THEN "default" ELSE "plain")]
    /\ storage = EmptyDict
    /\ subscribers = <<>>
    /\ emitted = 0
    /\ nmodify = 0
    /\ nflush = 0
    /\ raised = "none"
    /\ ops = 0
    /\ deco = NoDecoration
    /\ \E flag_should_log \in BOOLEAN : perf = NewPerflog(flag_should_log)
    /\ idmanager = Constructed(Cardinality(DOMAIN controls) + Cardinality(DOMAIN displays))
    /\ trace = NewTrace

SpecPerflog == InitPerflog /\ [][Next]_vars

\* ------------------------------------------------- keys of every kind
\* the keys controls are constructed with and signals are made with:
\* StatefulControl.__init__ takes any string
Keys == {"", "rho", "sigma"}

\* two controls of any keys, a display that takes every snapshot and one that
\* needs sigma, a fresh hub, the events recorded
InitKeys ==
    /\ \E keys \in [ControlIds -> Keys] :
          controls = [c \in ControlIds |-> NewControl(keys[c], InitialValue(c))]
    /\ callbacks = [d \in DisplayIds |->
                       Callback(IF d = "d1" THEN callback_static ELSE callback_b, DefaultConfig)]
    /\ displays = [d \in DisplayIds |-> NewDisplay(d, "plain")]
    /\ storage = EmptyDict
    /\ subscribers = <<>>
    /\ emitted = 0
    /\ nmodify = 0
    /\ nflush = 0
    /\ raised = "none"
    /\ ops = 0
    /\ deco = NoDecoration
    /\ perf = NewPerflog(FALSE)
    /\ idmanager = Constructed(Cardinality(DOMAIN controls) + Cardinality(DOMAIN displays))
    /\ trace = NewTrace

\* state.modify_state(VisualizerControlSignal(key=key, value=value)), called
\* on the hub as the tests of VisualizerState do
ModifyState(key, value) ==
    /\ ops < MaxOps
    /\ LET arg == VisualizerControlSignal(key, value) IN
          /\ Commit(IF arg.raised # "none" THEN World ELSE modify_state(World, arg))
          /\ raised' = arg.raised
    /\ ops' = ops + 1
    /\ UNCHANGED deco

NextKeys ==
    \/ \E ds \in Orders(DisplayIds), cs \in Orders(ControlIds) : ConfigureState(ds, cs)
    \/ \E c \in ControlIds, v \in Values : ControlChange(c, v)
    \/ Flush
    \/ \E key \in Keys, v \in Values : ModifyState(key, v)

SpecKeys == InitKeys /\ [][NextKeys]_vars

\* ------------------------------------- parameters no control provides
\* def f(rho, sigma, **_) with default values for the parameters in defaults
callback_defaults(defaults) ==
    Func([n \in {"rho", "sigma", "_"} |->
             IF n = "_" THEN "VAR_KEYWORD" ELSE "POSITIONAL_OR_KEYWORD"], defaults)

\* two displays around f decorated with a bare @use_parameter_cache, which
\* tracks rho and sigma; the layout holds any of the two controls
InitUnprovided ==
    /\ controls = [c \in ControlIds |-> NewControl(KeyOf(c), InitialValue(c))]
    /\ \E defaults \in [DisplayIds -> SUBSET {"rho", "sigma"}] :
          /\ callbacks = [d \in DisplayIds |->
                             use_parameter_cache(callback_defaults(defaults[d]), <<>>,
                                                 BlacklistOf(<<>>), TRUE,
                                                 <<"rho", "sigma">>).callback]
          /\ displays = [d \in DisplayIds |-> NewDisplay(d, "default")]
    /\ storage = EmptyDict
    /\ subscribers = <<>>
    /\ emitted = 0
    /\ nmodify = 0
    /\ nflush = 0
    /\ raised = "none"
    /\ ops = 0
    /\ deco = NoDecoration
    /\ perf = NewPerflog(FALSE)
    /\ idmanager = Constructed(Cardinality(DOMAIN controls) + Cardinality(DOMAIN displays))
    /\ trace = NoTrace

NextUnprovided ==
    \/ \E ds \in Orders(DisplayIds), cs \in Lists(ControlIds) : ConfigureState(ds, cs)
    \/ \E c \in ControlIds, v \in Values : ControlChange(c, v)
    \/ Flush

SpecUnprovided == InitUnprovided /\ [][NextUnprovided]_vars

\* ------------------------------------------- one Callback, two displays
\* cached = use_parameter_cache(...)(f); StatefulDisplay(cached) twice:
\* __init__ keeps a callback that is a Callback as it is, so both displays hold
\* the one instance
InitShared ==
    /\ controls = [c \in ControlIds |-> NewControl(KeyOf(c), InitialValue(c))]
    /\ \E made \in {m \in Constructions : m.made_with # "plain"} :
          /\ callbacks = [k \in {"cached"} |-> made.callback]
          /\ displays = [d \in DisplayIds |-> NewDisplay("cached", made.made_with)]
    /\ storage = EmptyDict
    /\ subscribers = <<>>
    /\ emitted = 0
    /\ nmodify = 0
    /\ nflush = 0
    /\ raised = "none"
    /\ ops = 0
    /\ deco = NoDecoration
    /\ perf = NewPerflog(FALSE)
    /\ idmanager = Constructed(Cardinality(DOMAIN controls) + Cardinality(DOMAIN displays))
    /\ trace = NoTrace

SpecShared == InitShared /\ [][Next]_vars

\* ------------------------------------------ widgets taking identifiers
\* the identifiers of a run: more than the 16^IdWidth that IdWidth digits hold
MaxIds == 18

\* a widget before its __init__ has an empty identifier
NoWidget == [identifier |-> <<>>]

\* the module loaded, no widget constructed
InitIdManager ==
    /\ idmanager = IdManagerClass
    /\ controls = [c \in {"c_rho"} |-> NoWidget]
    /\ displays = [d \in {"d1"} |-> NoWidget]
    /\ callbacks = [d \in {"d1"} |-> Callback(callback_b, DefaultConfig)]
    /\ storage = EmptyDict
    /\ subscribers = <<>>
    /\ emitted = 0
    /\ nmodify = 0
    /\ nflush = 0
    /\ raised = "none"
    /\ ops = 0
    /\ deco = NoDecoration
    /\ perf = NewPerflog(FALSE)
    /\ trace = NoTrace

\* StatefulControl.__init__: self.identifier = IdManager().generate_identifier()
\* (a new widget takes the place of the one called c)
ConstructControl(c) ==
    /\ Len(idmanager.issued) < MaxIds
    /\ LET r == generate_identifier(IdManager_new(idmanager)) IN
          /\ idmanager' = r.self
          /\ controls' = [controls EXCEPT ![c] = [identifier |-> r.ret]]
    /\ UNCHANGED <<storage, subscribers, displays, callbacks, emitted, nmodify,
                   nflush, raised, ops, deco, perf, trace>>

\* StatefulDisplay.__init__: self.identifier = IdManager().generate_identifier()
ConstructDisplay(d) ==
    /\ Len(idmanager.issued) < MaxIds
    /\ LET r == generate_identifier(IdManager_new(idmanager)) IN
          /\ idmanager' = r.self
          /\ displays' = [displays EXCEPT ![d] = [identifier |-> r.ret]]
    /\ UNCHANGED <<storage, subscribers, controls, callbacks, emitted, nmodify,
                   nflush, raised, ops, deco, perf, trace>>

NextIdManager ==
    \/ ConstructControl("c_rho")
    \/ ConstructDisplay("d1")

SpecIdManager == InitIdManager /\ [][NextIdManager]_vars

\* ------------------------------------------- trackbars over 0..100
\* some of the values of a TrackbarConfig(0, 100): rho is constructed with
\* init=50, sigma with none (so it starts at 0)
TrackbarValues == {0, 10, 50, 75}

TrackbarInitialValue(c) == IF c = "c_rho" THEN 50 ELSE 0

\* the first display is around the plain function callback_a, which returns
\* rho + sigma; the second around callback_a too, plain or decorated with
\* use_parameter_cache(whitelist=["sigma"])
InitTrackbars ==
    /\ controls = [c \in ControlIds |-> NewControl(KeyOf(c), TrackbarInitialValue(c))]
    /\ \E made \in [DisplayIds -> {m \in Constructions : m.callback.func = callback_a}] :
          /\ made["d1"].made_with = "plain"
          /\ made["d2"].made_with \in {"plain", "whitelist"}
          /\ callbacks = [d \in DisplayIds |-> made[d].callback]
          /\ displays = [d \in DisplayIds |-> NewDisplay(d, made[d].made_with)]
    /\ storage = EmptyDict
    /\ subscribers = <<>>
    /\ emitted = 0
    /\ nmodify = 0
    /\ nflush = 0
    /\ raised = "none"
    /\ ops = 0
    /\ deco = NoDecoration
    /\ perf = NewPerflog(FALSE)
    /\ idmanager = Constructed(Cardinality(DOMAIN controls) + Cardinality(DOMAIN displays))
    /\ trace = NoTrace

NextTrackbars ==
    \/ \E ds \in Orders(DisplayIds), cs \in Orders(ControlIds) : ConfigureState(ds, cs)
    \/ \E c \in ControlIds, v \in TrackbarValues : ControlChange(c, v)
    \/ Flush

SpecTrackbars == InitTrackbars /\ [][NextTrackbars]_vars

\* ------------------------------------------------ a context with an animator
AnimControlIds == {"animator", "c_sigma"}

\* the updates per second the animator is constructed with
UpsValues == {3, 60, 3000}

\* def callback(sigma, animation_tick, **_)
callback_tick ==
    Func([n \in {"sigma", "animation_tick", "_"} |->
             IF n = "_" THEN "VAR_KEYWORD" ELSE "POSITIONAL_OR_KEYWORD"], {})

\* an animator and the trackbar sigma; the first display around the plain
\* function callback_tick, the second around callback_b decorated with a bare
\* @use_parameter_cache
AnimatorContext ==
    /\ \E ups \in UpsValues, auto_start \in BOOLEAN, promotion \in {"weak", "legacy"} :
          controls = [c \in AnimControlIds |->
                         IF c = "animator" THEN NewAnimator(ups, auto_start, promotion)
                         ELSE NewControl(KeyOf(c), InitialValue(c))]
    /\ callbacks =
          [d \in DisplayIds |->
              IF d = "d1" THEN Callback(callback_tick, DefaultConfig)
              ELSE use_parameter_cache(callback_b, <<>>, BlacklistOf(<<>>),
                                       TRUE, <<"sigma">>).callback]
    /\ displays =
          [d \in DisplayIds |-> NewDisplay(d, IF d = "d1" THEN "plain" ELSE "default")]
    /\ storage = EmptyDict
    /\ subscribers = <<>>
    /\ emitted = 0
    /\ nmodify = 0
    /\ nflush = 0
    /\ raised = "none"
    /\ ops = 0
    /\ deco = NoDecoration
    /\ perf = NewPerflog(FALSE)
    /\ idmanager = Constructed(Cardinality(DOMAIN controls) + Cardinality(DOMAIN displays))

InitAnimator == AnimatorContext /\ trace = NoTrace

\* the same context, the events of every handler recorded
InitRecorded == AnimatorContext /\ trace = NewTrace

\* one of the animator's handlers runs to its end
AnimatorStep(r) ==
    /\ ops < MaxOps
    /\ Commit(r.w)
    /\ raised' = r.raised
    /\ ops' = ops + 1
    /\ UNCHANGED deco

\* the QTimer's timeout fires: only an active timer does
OnTick(a) ==
    /\ controls[a].timer.active
    /\ AnimatorStep(on_tick(World, a))

\* the button ">" is clicked, or forward() is called
Forward(a) == AnimatorStep(forward(World, a))

\* the button "<" is clicked, or reverse() is called
Reverse(a) == AnimatorStep(reverse(World, a))

\* the button "RESET" is clicked, or reset() is called
Reset(a) == AnimatorStep(reset(World, a))

\* the button "PLAY" is clicked, or pause_play() is called
PausePlay(a) == AnimatorStep([raised |-> "none", w |-> pause_play(World, a)])

NextAnimator ==
    \/ \E ds \in Orders(DisplayIds), cs \in Orders(AnimControlIds) : ConfigureState(ds, cs)
    \/ OnTick("animator")
    \/ Forward("animator")
    \/ Reverse("animator")
    \/ Reset("animator")
    \/ PausePlay("animator")
    \/ \E v \in Values : ControlChange("c_sigma", v)

SpecAnimator == InitAnimator /\ [][NextAnimator]_vars

SpecRecorded == InitRecorded /\ [][NextAnimator]_vars

\* ------------------------------------- bindings of any widgets, hub reused
\* three trackbars, two of them constructed with the same key
BindControlIds == {"c_rho", "c_sigma", "c_rho2"}

BindKeyOf(c) == IF c = "c_sigma" THEN "sigma" ELSE "rho"

\* widgets constructed and detached, and a hub nothing was bound to
\* the displays of these bindings, as in the demo: the first around
\* callback_b decorated with a bare @use_parameter_cache, the second around
\* the plain function callback_a
BindConstructions ==
    {made \in [DisplayIds -> Constructions] :
        /\ made["d1"].made_with = "default" /\ made["d1"].callback.func = callback_b
        /\ made["d2"].made_with = "plain" /\ made["d2"].callback.func = callback_a}

InitBinding ==
    /\ controls = [c \in BindControlIds |-> NewControl(BindKeyOf(c), InitialValue(c))]
    /\ \E made \in BindConstructions :
          /\ callbacks = [d \in DisplayIds |-> made[d].callback]
          /\ displays = [d \in DisplayIds |-> NewDisplay(d, made[d].made_with)]
    /\ storage = EmptyDict
    /\ subscribers = <<>>
    /\ emitted = 0
    /\ nmodify = 0
    /\ nflush = 0
    /\ raised = "none"
    /\ ops = 0
    /\ deco = NoDecoration
    /\ perf = NewPerflog(FALSE)
    /\ idmanager = Constructed(Cardinality(DOMAIN controls) + Cardinality(DOMAIN displays))
    /\ trace = NoTrace

\* a widget is in one layout: the widgets of a binding are not yet bound
Detached(ds, cs) ==
    /\ \A i \in DOMAIN ds : \A j \in DOMAIN subscribers : subscribers[j] # ds[i]
    /\ \A i \in DOMAIN cs : controls[cs[i]].connections = 0

\* VisualizerContext(layout, state): configure_state over the layout's
\* displays ds and controls cs, on the hub (new for the first context, passed
\* as state= to the later ones)
Bind(ds, cs) ==
    /\ Len(ds) + Len(cs) > 0
    /\ Detached(ds, cs)
    /\ LET r == configure_state(World, ds, cs) IN
          /\ Commit(r.w)
          /\ raised' = r.raised
    /\ UNCHANGED <<ops, deco>>

NextBinding ==
    \/ \E ds \in Lists(DisplayIds), cs \in Lists(BindControlIds) : Bind(ds, cs)
    \/ \E c \in BindControlIds, v \in Values : ops < MaxBindOps /\ ControlChange(c, v)
    \/ ops < MaxBindOps /\ Flush

SpecBinding == InitBinding /\ [][NextBinding]_vars

\* ------------------------------------------ use_parameter_cache on its own
\* every signature over ListNames: Python allows one *args and one **kwargs
Signatures ==
    UNION { {p \in [S -> ParamKinds] :
                /\ Cardinality({n \in S : p[n] = "VAR_POSITIONAL"}) <= 1
                /\ Cardinality({n \in S : p[n] = "VAR_KEYWORD"}) <= 1}
            : S \in SUBSET ListNames }

\* the lists of at most MaxListLen names
NameLists == UNION { [1..n -> ListNames] : n \in 0..MaxListLen }

\* the callables use_parameter_cache can be given: plain functions and
\* Callback instances
DecoFuncs ==
    {Func(p, {}) : p \in Signatures}
    \cup {[Func(p, {}) EXCEPT !.isCallback = TRUE] : p \in Signatures}

\* a use_parameter_cache call about to be made, with any arguments
InitDecorator ==
    /\ controls = [c \in ControlIds |-> NewControl(KeyOf(c), InitialValue(c))]
    /\ callbacks = [d \in DisplayIds |-> Callback(callback_a, DefaultConfig)]
    /\ displays = [d \in DisplayIds |-> NewDisplay(d, "plain")]
    /\ storage = EmptyDict
    /\ subscribers = <<>>
    /\ emitted = 0
    /\ nmodify = 0
    /\ nflush = 0
    /\ raised = "none"
    /\ ops = 0
    /\ perf = NewPerflog(FALSE)
    /\ idmanager = Constructed(Cardinality(DOMAIN controls) + Cardinality(DOMAIN displays))
    /\ trace = NoTrace
    /\ \E func \in DecoFuncs, whitelist \in NameLists, names \in NameLists,
          all \in BOOLEAN, direct \in BOOLEAN :
          \E order \in Orders(callback_paramset(func)) :
             /\ all => names = <<>>
             /\ deco = [ phase |-> "called", func |-> func, whitelist |-> whitelist,
                         blacklist |-> IF all THEN BlacklistAll ELSE BlacklistOf(names),
                         direct |-> direct, order |-> order ]

\* the call returns a Callback or raises
Decorate ==
    /\ deco.phase = "called"
    /\ deco' = [ phase |-> "returned", func |-> deco.func,
                 whitelist |-> deco.whitelist, blacklist |-> deco.blacklist,
                 direct |-> deco.direct, order |-> deco.order,
                 result |-> use_parameter_cache(deco.func, deco.whitelist,
                                                deco.blacklist, deco.direct, deco.order) ]
    /\ UNCHANGED <<controls, storage, subscribers, displays, callbacks, emitted,
                   nmodify, nflush, raised, ops, perf, idmanager, trace>>

NextDecorator == Decorate

SpecDecorator == InitDecorator /\ [][NextDecorator]_vars

\* ------------------------------------------------------------ the claims
Subscribed(d) == \E i \in DOMAIN subscribers : subscribers[i] = d

\* the Callback of display d, and the parameters its dirty-check tracks
CallbackOf(d) == callbacks[displays[d].callback]

Tracked(d) == DOMAIN CallbackOf(d).parameter_cache

Caching(d) == CallbackOf(d).config.cache_type = "Fake"

\* display d received exactly one snapshot in this step
GotSnapshot(d) == displays'[d].nsnap = displays[d].nsnap + 1

\* display d ran one compute+render cycle in this step
RanCycle(d) ==
    /\ displays'[d].ncompute = displays[d].ncompute + 1
    /\ displays'[d].nrender = displays[d].nrender + 1

\* display d ran no compute and no render in this step
RanNothing(d) ==
    /\ displays'[d].ncompute = displays[d].ncompute
    /\ displays'[d].nrender = displays[d].nrender

\* C1: every modify_state and every flush emits exactly one broadcast, and a
\* bound display whose callback has no cache has received every broadcast
\* emitted since it subscribed and has computed and rendered once for each
C1_UncachedDisplayRunsEveryBroadcast ==
    /\ emitted = nmodify + nflush
    /\ \A d \in DisplayIds :
          (Subscribed(d) /\ ~Caching(d)) =>
             /\ displays[d].nsnap = emitted - displays[d].missed
             /\ displays[d].ncompute = displays[d].nsnap
             /\ displays[d].nrender = displays[d].nsnap

\* C1 witness: an uncached bound display after the initial flush and three
\* control changes, with four cycles done
C1_Witness ==
    \E d \in DisplayIds :
       /\ Subscribed(d) /\ ~Caching(d)
       /\ nflush = 1 /\ nmodify = 5
       /\ displays[d].nrender = 4

\* C2 (as claimed): for a display built with whitelist=["sigma"], once it has
\* had its first snapshot, a change of control rho causes no compute and no
\* render
C2_RhoChangeNeverRenders ==
    [][ \A d \in DisplayIds :
           ( /\ displays[d].made_with = "whitelist"
             /\ displays[d].nsnap >= 1
             /\ \E v \in Values : ControlChange("c_rho", v) )
           => RanNothing(d) ]_vars

\* C3: for a display whose cache tracks exactly sigma, every snapshot after
\* its first in which sigma differs from the previous snapshot's sigma runs
\* exactly one compute+render cycle
C3_SigmaChangeRunsOneCycle ==
    [][ \A d \in DisplayIds :
           ( /\ Caching(d) /\ Tracked(d) = {"sigma"}
             /\ displays[d].nsnap >= 1
             /\ GotSnapshot(d)
             /\ displays'[d].lastsnap["sigma"] # displays[d].lastsnap["sigma"] )
           => RanCycle(d) ]_vars

\* C3 witness: a display tracking only sigma that skipped one of its four
\* snapshots and recomputed for a sigma change from 0 to 1 after its second
C3_Witness ==
    \E d \in DisplayIds :
       /\ Caching(d) /\ Tracked(d) = {"sigma"}
       /\ displays[d].nsnap = 4 /\ displays[d].ncompute = 3
       /\ CallbackOf(d).parameter_cache["sigma"] = 1
       /\ displays[d].lastsnap["sigma"] = 1

\* C4 (as claimed): a display built with blacklist="all" computes and renders
\* exactly once, on its first snapshot
C4_ExcludeAllRunsOnce ==
    \A d \in DisplayIds :
       displays[d].made_with = "all" =>
          /\ displays[d].ncompute <= 1
          /\ displays[d].nrender <= 1
          /\ displays[d].nsnap >= 1 => displays[d].ncompute = 1

\* C5: the first should_run of every Callback returns True: a display that
\* has received a snapshot has computed and rendered, and the step that
\* delivers a display's first snapshot runs one cycle
C5_FirstSnapshotRuns ==
    [][ \A d \in DisplayIds :
           (displays[d].nsnap = 0 /\ GotSnapshot(d)) => RanCycle(d) ]_vars

\* C5 witness: displays of two cache modes, one of them tracking nothing,
\* after their first snapshot
C5_Witness ==
    /\ displays["d1"].made_with = "all" /\ Tracked("d1") = {}
    /\ displays["d2"].made_with = "whitelist"
    /\ displays["d1"].nsnap = 1 /\ displays["d1"].nrender = 1
    /\ displays["d2"].nsnap = 1 /\ displays["d2"].nrender = 1

\* C6 (as claimed): after the first should_run of a tracking cache the cache
\* holds the snapshot's values of the tracked parameters
C6_FirstCallRecords ==
    \A d \in DisplayIds :
       (Caching(d) /\ displays[d].nsnap = 1) =>
          \A k \in Tracked(d) \cap DOMAIN displays[d].lastsnap :
             CallbackOf(d).parameter_cache[k] = displays[d].lastsnap[k]

\* C7: a should_run call after the first, on a snapshot that has every tracked
\* parameter, returns true iff some tracked parameter differs from the cache;
\* then the cache holds the snapshot's values, otherwise it is unchanged
C7_DirtyCheck ==
    [][ \A d \in DisplayIds :
           ( /\ CallbackOf(d).should_run = "_should_run"
             /\ GotSnapshot(d)
             /\ Tracked(d) \subseteq DOMAIN displays'[d].lastsnap )
           => LET snap == displays'[d].lastsnap
                  old == CallbackOf(d).parameter_cache
                  new == callbacks'[displays[d].callback].parameter_cache
                  dirty == \E k \in Tracked(d) : old[k] # snap[k]
              IN  /\ dirty => RanCycle(d) /\ \A k \in Tracked(d) : new[k] = snap[k]
                  /\ ~dirty => RanNothing(d) /\ new = old ]_vars

\* C7 witness: a display tracking rho and sigma that recomputed for three of
\* its four snapshots and skipped one
C7_Witness ==
    \E d \in DisplayIds :
       /\ CallbackOf(d).should_run = "_should_run"
       /\ Tracked(d) = {"rho", "sigma"}
       /\ displays[d].nsnap = 4 /\ displays[d].ncompute = 3
       /\ \A k \in Tracked(d) : CallbackOf(d).parameter_cache[k] = displays[d].lastsnap[k]

\* the use_parameter_cache call has returned a Callback
Decorated == deco.phase = "returned" /\ deco.result.raised = "none"

\* the parameters the Callback it returned tracks
DecoTracked == DOMAIN deco.result.callback.parameter_cache

\* the parameters of the decorated function that are declared by name
DecoNamed ==
    {n \in DOMAIN deco.func.params : deco.func.params[n] = "POSITIONAL_OR_KEYWORD"}

\* C8: a Callback built by use_parameter_cache tracks all named parameters
\* when no list is given, exactly the whitelist's names when one is given, and
\* the named parameters without the blacklist's names when a blacklist list
\* is given; it never tracks a *args or **kwargs parameter
C8_TrackedSet ==
    Decorated =>
       /\ (deco.whitelist = <<>> /\ ~Truthy(deco.blacklist)) => DecoTracked = DecoNamed
       /\ deco.whitelist # <<>> => DecoTracked = SeqToSet(deco.whitelist)
       /\ (~deco.blacklist.all /\ deco.blacklist.names # <<>>) =>
             DecoTracked = DecoNamed \ SeqToSet(deco.blacklist.names)
       /\ \A n \in DecoTracked :
             deco.func.params[n] \notin {"VAR_POSITIONAL", "VAR_KEYWORD"}

\* C8 witness: a function with two named parameters and a **kwargs, decorated
\* with blacklist=["rho"]: only sigma is tracked
C8_Witness ==
    /\ Decorated
    /\ deco.blacklist = BlacklistOf(<<"rho">>)
    /\ DecoNamed = {"rho", "sigma"}
    /\ "_" \in DOMAIN deco.func.params
    /\ deco.func.params["_"] = "VAR_KEYWORD"
    /\ DecoTracked = {"sigma"}

\* C9 (as claimed): with blacklist="all" the Callback tracks nothing
C9_ExcludeAllTracksNothing ==
    (Decorated /\ deco.blacklist.all) => DecoTracked = {}

C11_BothStrategiesRaise ==
    ( /\ deco.phase = "returned"
      /\ deco.whitelist # <<>>
      /\ (deco.blacklist.all \/ deco.blacklist.names # <<>>) )
    => /\ deco.result.raised = "AssertionError"
       /\ deco.result.callback = NoCallback

\* C11 witness: whitelist ["rho"] and blacklist ["sigma"], both real parameters
\* of a plain function, and whitelist ["rho"] with "all" would do the same
C11_Witness ==
    /\ deco.phase = "returned"
    /\ ~deco.func.isCallback
    /\ DecoNamed = {"rho", "sigma"}
    /\ deco.whitelist = <<"rho">>
    /\ deco.blacklist = BlacklistOf(<<"sigma">>)
    /\ deco.result.raised = "AssertionError"

\* C12: a step that holds exactly one modify_state call writes the signal's
\* value at the signal's key and leaves every other key as it was, emits
\* exactly one broadcast, and every subscribed display receives exactly one
\* snapshot, equal to the storage after the write; also when the value
\* written is the value already stored
C12_ModifyWritesThenBroadcasts ==
    [][ nmodify' = nmodify + 1 =>
           /\ \E c \in DOMAIN controls :
                 storage' = [k \in DOMAIN storage \cup {controls'[c].key} |->
                               IF k = controls'[c].key THEN controls'[c].value
                               ELSE storage[k]]
           /\ emitted' = emitted + 1
           /\ \A d \in DisplayIds :
                 Subscribed(d) =>
                    /\ displays'[d].nsnap = displays[d].nsnap + 1
                    /\ displays'[d].lastsnap = storage' ]_vars

\* C12 witness: after the binding, one control change that wrote the value
\* already stored: storage as the binding left it, and a second snapshot
\* delivered
C12_Witness ==
    /\ nmodify = 3 /\ nflush = 1 /\ emitted = 4
    /\ storage = [k \in {"rho", "sigma"} |-> IF k = "rho" THEN 1 ELSE 0]
    /\ \A d \in DisplayIds :
          Subscribed(d) /\ displays[d].nsnap = 2 /\ displays[d].lastsnap = storage

\* C13: a flush() emits exactly one broadcast and leaves the storage as it
\* was; every subscribed display receives the storage as its snapshot, the
\* same snapshot as the one it received last, and a display without cache
\* runs one compute+render cycle for it
C13_FlushRebroadcasts ==
    [][ (nflush' = nflush + 1 /\ nmodify' = nmodify) =>
           /\ storage' = storage
           /\ emitted' = emitted + 1
           /\ \A d \in DisplayIds :
                 Subscribed(d)' =>
                    /\ displays'[d].nsnap = displays[d].nsnap + 1
                    /\ displays'[d].lastsnap = storage
                    /\ displays[d].nsnap >= 1 => displays'[d].lastsnap = displays[d].lastsnap
                    /\ ~Caching(d) => RanCycle(d) ]_vars

\* C13 witness: the binding's flush and two more with no modify_state in
\* between: an uncached display with three identical snapshots and three
\* cycles
C13_Witness ==
    /\ nflush = 3 /\ nmodify = 2 /\ emitted = 5
    /\ \E d \in DisplayIds :
          /\ Subscribed(d) /\ ~Caching(d)
          /\ displays[d].nsnap = 3 /\ displays[d].nrender = 3
          /\ displays[d].lastsnap = storage

\* two controls of the list cs were constructed with the same key
SharedKey(cs) ==
    \E i, j \in DOMAIN cs : i # j /\ controls[cs[i]].key = controls[cs[j]].key

\* C14 (as claimed): a binding whose controls hold two with the same key
\* raises ValueError, and the hub has run no modify_state, no flush and emitted
\* no broadcast in it
C14_DuplicateKeyRaisesBeforeAnySignal ==
    [][ \A ds \in Lists(DisplayIds), cs \in Lists(BindControlIds) :
           (Bind(ds, cs) /\ SharedKey(cs)) =>
              /\ raised' = "ValueError"
              /\ nmodify' = nmodify
              /\ nflush' = nflush
              /\ emitted' = emitted ]_vars

\* every key of the storage is the key of exactly one connected control
OneControlPerKey ==
    \A k \in DOMAIN storage :
       Cardinality({c \in DOMAIN controls :
                       controls[c].connections > 0 /\ controls[c].key = k}) = 1

\* C15 (as claimed): a binding with a control whose key is already in the
\* hub's storage raises ValueError, and after every step each key of the
\* storage was registered by exactly one control
C15_KeyInStorageRaises ==
    [][ /\ \A ds \in Lists(DisplayIds), cs \in Lists(BindControlIds) :
              ( /\ Bind(ds, cs)
                /\ \E i \in DOMAIN cs : controls[cs[i]].key \in DOMAIN storage )
              => raised' = "ValueError"
        /\ OneControlPerKey' ]_vars

\* nothing was ever bound to the hub
FreshHub ==
    /\ storage = EmptyDict /\ subscribers = <<>> /\ emitted = 0
    /\ \A c \in DOMAIN controls : controls[c].connections = 0

\* the callback of display d can be called with the keys of the storage:
\* every parameter it requires is there, and what it does not declare is
\* taken by its **kwargs
Accepts(d) ==
    LET func == CallbackOf(d).func IN
    /\ (Named(func) \ func.defaults) \subseteq DOMAIN storage
    /\ (DOMAIN storage \subseteq Named(func) \/ HasVarKeyword(func))

\* the step is a binding (the one kind of step that is not a user operation)
\* and it returned without raising; its displays are the subscribed ones when
\* the hub was fresh
BindingReturned == ops' = ops /\ raised' = "none"

\* C16 (as claimed): a binding to a fresh hub that does not raise runs flush
\* exactly once, and each of its displays has received exactly one snapshot
\* and has computed and rendered exactly once
C16_BindingRendersEveryDisplayOnce ==
    [][ (FreshHub /\ BindingReturned) =>
           /\ nflush' = nflush + 1
           /\ \A d \in DisplayIds :
                 Subscribed(d)' =>
                    /\ displays'[d].nsnap = 1
                    /\ displays'[d].ncompute = 1
                    /\ displays'[d].nrender = 1 ]_vars

\* C16 (amended): a binding to a fresh hub that does not raise runs flush
\* exactly once and each of its displays has received exactly one snapshot,
\* the storage; a display whose callback can be called with the storage's keys
\* has computed and rendered exactly once, any other display has raised once
\* and rendered nothing
C16_BindingRendersAcceptingDisplaysOnce ==
    [][ (FreshHub /\ BindingReturned) =>
           /\ nflush' = nflush + 1
           /\ \A d \in DisplayIds :
                 Subscribed(d)' =>
                    /\ displays'[d].nsnap = 1
                    /\ displays'[d].lastsnap = storage'
                    /\ Accepts(d)' =>
                          /\ displays'[d].ncompute = 1
                          /\ displays'[d].nrender = 1
                          /\ displays'[d].nraised = 0
                    /\ ~Accepts(d)' =>
                          /\ displays'[d].nrender = 0
                          /\ displays'[d].nraised = 1 ]_vars

\* C16 witness: one binding of both displays with the controls rho and sigma
\* to the fresh hub: one flush, one snapshot and one cycle for each display
C16_Witness ==
    /\ nflush = 1 /\ nmodify = 2 /\ emitted = 3 /\ ops = 0 /\ raised = "none"
    /\ DOMAIN storage = {"rho", "sigma"}
    /\ Len(subscribers) = 2
    /\ \A d \in DisplayIds :
          displays[d].nsnap = 1 /\ displays[d].ncompute = 1 /\ displays[d].nrender = 1

\* C17: with rho starting at 50 and sigma at 0, a bound uncached display of
\* rho + sigma has rendered 50 when the binding returns; moving rho to 75
\* while sigma is 0 emits one broadcast, the snapshot {rho: 75, sigma: 0}, and
\* the display renders 75; and after every step the value rendered last is
\* rho + sigma of the hub's storage
C17_RenderedFollowsStorage ==
    [][ \A d \in DisplayIds :
           (Subscribed(d)' /\ ~Caching(d)) =>
              /\ displays'[d].rendered = storage'["rho"] + storage'["sigma"]
              /\ (nflush = 0 /\ nflush' = 1) => displays'[d].rendered = 50
              /\ (Subscribed(d) /\ storage["sigma"] = 0 /\ ControlChange("c_rho", 75)) =>
                    /\ emitted' = emitted + 1
                    /\ displays'[d].nsnap = displays[d].nsnap + 1
                    /\ displays'[d].lastsnap =
                          [k \in {"rho", "sigma"} |-> IF k = "rho" THEN 75 ELSE 0]
                    /\ displays'[d].nrender = displays[d].nrender + 1
                    /\ displays'[d].rendered = 75 ]_vars

\* C17 witness: the binding and then rho moved to 75: two renders, the last
\* of 75
C17_Witness ==
    /\ nflush = 1 /\ nmodify = 3 /\ ops = 1
    /\ storage = [k \in {"rho", "sigma"} |-> IF k = "rho" THEN 75 ELSE 0]
    /\ ~Caching("d1") /\ Subscribed("d1")
    /\ displays["d1"].nrender = 2
    /\ displays["d1"].rendered = 75

\* the animator of the context, before and after the step
Animator == controls["animator"]

\* the step emitted the animator's signal once: one modify_state call for
\* each connection of on_control_signal_changed, each followed by its
\* broadcast, and a connected hub stores the tick under "animation_tick"
EmittedTick ==
    /\ nmodify' = nmodify + Animator.connections
    /\ emitted' = emitted + Animator.connections
    /\ Animator.connections > 0 =>
          /\ "animation_tick" \in DOMAIN storage'
          /\ storage'["animation_tick"] = Animator'.value

\* C18: a reverse() called right after a forward() leaves the tick at the
\* value it had before the forward(), from any value, and every forward() and
\* every reverse() emits one signal with the key "animation_tick"
C18_ForwardThenReverse ==
    [][ /\ (Reverse("animator") /\ Animator.last_op = "forward") =>
              Animator'.value = Animator.before.value
        /\ (Forward("animator") \/ Reverse("animator")) =>
              /\ Animator'.key = "animation_tick"
              /\ EmittedTick ]_vars

\* C18 witness: a bound animator whose tick was at the top of the unsigned
\* range: forward() wrapped it to 0 and reverse() took it back
C18_Witness ==
    /\ Animator.connections = 1
    /\ Animator.last_op = "reverse" /\ Animator.prev_op = "forward"
    /\ Animator.before.value = 0
    /\ Animator.value = TickModulus - 1
    /\ storage["animation_tick"] = TickModulus - 1

\* C19: reset() sets the tick to 0, whatever the tick was and whether the
\* timer runs or not, and emits one signal "animation_tick" with the value 0
C19_ResetEmitsZero ==
    [][ Reset("animator") =>
           /\ Animator'.value = 0
           /\ Animator'.key = "animation_tick"
           /\ EmittedTick ]_vars

\* C19 witness: a bound, running animator reset from a tick that was not 0
C19_Witness ==
    /\ Animator.connections = 1
    /\ Animator.last_op = "reset"
    /\ Animator.before.value # 0 /\ Animator.before.active
    /\ Animator.value = 0
    /\ storage["animation_tick"] = 0
    /\ nmodify = 4

\* C20: the timer is active or not, and nothing between: it is active after
\* construction iff auto_start was given, every pause_play() flips it
\* (starting the timer with the interval tick_time, or stopping it), a second
\* pause_play() right after the first restores the state before the first,
\* and no other step changes it
C20_PausePlayFlips ==
    /\ Animator.timer.active = Animator.auto_start
    /\ [][ /\ Animator'.timer.active \in BOOLEAN
           /\ PausePlay("animator") =>
                 /\ Animator'.timer.active = ~Animator.timer.active
                 /\ Animator'.timer.active => Animator'.timer.interval = Animator.tick_time
                 /\ Animator.last_op = "pause_play" =>
                       Animator'.timer.active = Animator.before.active
           /\ ~PausePlay("animator") =>
                 Animator'.timer.active = Animator.timer.active ]_vars

\* C20 witness: an animator constructed without auto_start after two
\* pause_play() calls in a row: stopped again
C20_Witness ==
    /\ ~Animator.auto_start
    /\ Animator.last_op = "pause_play" /\ Animator.prev_op = "pause_play"
    /\ Animator.before.active
    /\ ~Animator.timer.active
    /\ Animator.timer.interval = Animator.tick_time

\* the tick after the step is the tick before it plus delta, in the tick's
\* arithmetic: an unsigned tick goes round from the top of its range to 0 and
\* from 0 to the top
TickMoved(delta) ==
    \/ Animator'.value = Animator.value + delta
    \/ /\ Animator.promotion = "weak"
       /\ Animator'.value = Animator.value + delta - TickModulus
    \/ /\ Animator.promotion = "weak"
       /\ Animator'.value = Animator.value + delta + TickModulus

\* C21: every on_tick() increments the tick by exactly 1 and emits one signal
\* with the key "animation_tick" and the incremented tick as its value, through
\* modify_state like the signal of any control
C21_TickIncrementsAndEmits ==
    [][ OnTick("animator") =>
           /\ TickMoved(1)
           /\ Animator'.value \in 0..(TickModulus - 1) \/ Animator.promotion = "legacy"
           /\ Animator'.key = "animation_tick"
           /\ EmittedTick ]_vars

\* C21 witness: a bound running animator after two timer ticks: the hub
\* stores 2
C21_Witness ==
    /\ Animator.connections = 1
    /\ Animator.timer.active
    /\ Animator.last_op = "on_tick" /\ Animator.prev_op = "on_tick"
    /\ Animator.before.value = 1
    /\ Animator.value = 2
    /\ storage["animation_tick"] = 2
    /\ nmodify = 4

\* the animator is Stopped: constructed without auto_start and pause_play
\* called an even number of times, or constructed with it and pause_play called
\* an odd number of times
Stopped == Animator.auto_start = Animator.toggled

\* C22: no timer tick happens while the animator is Stopped, so a step that
\* starts there and changes the tick or emits the animator's signal is a
\* forward(), a reverse() or a reset()
C22_NoTickWhileStopped ==
    [][ Stopped =>
           /\ ~OnTick("animator")
           /\ ( \/ Animator'.value # Animator.value
                \/ Animator'.last_op = "on_tick" /\ Animator' # Animator )
              => (Forward("animator") \/ Reverse("animator") \/ Reset("animator")) ]_vars

\* C22 witness: an animator constructed with auto_start that ticked, was
\* stopped by pause_play() and then stepped by forward()
C22_Witness ==
    /\ Animator.auto_start /\ Animator.toggled
    /\ ~Animator.timer.active
    /\ Animator.last_op = "forward" /\ Animator.prev_op = "pause_play"
    /\ Animator.value = 2

\* C23: forward() changes the tick by exactly +1 and reverse() by exactly -1,
\* each emits one signal, with the timer active or not, and forward(),
\* reverse() and reset() leave the timer as it was
C23_StepsLeaveTimer ==
    [][ /\ Forward("animator") => TickMoved(1) /\ EmittedTick
        /\ Reverse("animator") => TickMoved(-1) /\ EmittedTick
        /\ (Forward("animator") \/ Reverse("animator") \/ Reset("animator")) =>
              /\ Animator'.timer = Animator.timer
              /\ Animator'.value \in 0..(TickModulus - 1) \/ Animator.promotion = "legacy" ]_vars

\* C23 witness: forward() with the timer active, then reverse() after
\* pause_play() stopped it, the hub storing each tick
C23_Witness ==
    /\ Animator.connections = 1
    /\ Animator.auto_start /\ ~Animator.timer.active
    /\ Animator.last_op = "reverse" /\ Animator.prev_op = "pause_play"
    /\ Animator.before.value = 1 /\ Animator.value = 0
    /\ storage["animation_tick"] = 0
    /\ nmodify = 4

\* the step is one of the animator's on_tick, forward, reverse or reset
TickStep ==
    \/ OnTick("animator") \/ Forward("animator")
    \/ Reverse("animator") \/ Reset("animator")

\* C24 (as claimed): every on_tick, forward, reverse and reset of a bound
\* animator delivers one snapshot to every bound display, and a display whose
\* cache does not track "animation_tick", once it has rendered, does not compute
\* or render for it
C24_TickNeverRecomputesUntracking ==
    [][ (TickStep /\ Animator.connections = 1) =>
           \A d \in DisplayIds :
              Subscribed(d) =>
                 /\ displays'[d].nsnap = displays[d].nsnap + 1
                 /\ ( /\ Caching(d)
                      /\ "animation_tick" \notin Tracked(d)
                      /\ displays[d].nrender >= 1 )
                    => RanNothing(d) ]_vars

\* C29: every snapshot a display receives once configure_state has connected
\* it has a value for the key of every control of that same call
C29_SnapshotsHaveCallKeys ==
    \A d \in DisplayIds :
       Subscribed(d) =>
          /\ displays[d].lacked = {}
          /\ displays[d].nsnap >= 1 => displays[d].cokeys \subseteq DOMAIN displays[d].lastsnap

\* C29 witness: a display bound together with two controls of different keys
\* has received the initial snapshot and one more, each with both keys
C29_Witness ==
    \E d \in DisplayIds :
       /\ Subscribed(d)
       /\ displays[d].cokeys = {"rho", "sigma"}
       /\ displays[d].nsnap = 2
       /\ displays[d].lacked = {}
       /\ DOMAIN displays[d].lastsnap = {"rho", "sigma"}

\* the result of f(**kwds) for the parameters f declares
ResultOf(d, kwds) == SumOver(Named(CallbackOf(d).func), kwds)

\* C25 (as claimed): a display that has received snapshots with a key for
\* every parameter its callback declares, and more, has never raised, and what
\* it rendered depends on the declared parameters only
C25_ExtraKeysNeverFail ==
    \A d \in DisplayIds :
       ( /\ Subscribed(d) /\ displays[d].nsnap >= 1
         /\ Named(CallbackOf(d).func) \subseteq DOMAIN displays[d].lastsnap )
       => /\ displays[d].nraised = 0
          /\ displays[d].nrender = displays[d].nsnap
          /\ displays[d].rendered = ResultOf(d, displays[d].lastsnap)

\* C25 (amended): the same for a display whose callback declares **kwargs or
\* every key of the snapshot; a callback without **kwargs raises on every
\* snapshot that has a key it does not declare, and the display renders nothing
C25_ExtraKeysIgnoredByVarKeyword ==
    \A d \in DisplayIds :
       ( /\ Subscribed(d) /\ displays[d].nsnap >= 1
         /\ Named(CallbackOf(d).func) \subseteq DOMAIN displays[d].lastsnap )
       => IF \/ HasVarKeyword(CallbackOf(d).func)
             \/ DOMAIN displays[d].lastsnap = Named(CallbackOf(d).func)
          THEN /\ displays[d].nraised = 0
               /\ displays[d].nrender = displays[d].nsnap
               /\ displays[d].rendered = ResultOf(d, displays[d].lastsnap)
          ELSE /\ displays[d].nraised = displays[d].nsnap
               /\ displays[d].nrender = 0
               /\ displays[d].rendered = NoneVal

\* C25 witness: def f(sigma, **_) after four snapshots with rho and sigma
\* rendered sigma alone, next to def f(sigma), which raised four times
C25_Witness ==
    /\ Named(CallbackOf("d1").func) = {"sigma"} /\ HasVarKeyword(CallbackOf("d1").func)
    /\ Named(CallbackOf("d2").func) = {"sigma"} /\ ~HasVarKeyword(CallbackOf("d2").func)
    /\ displays["d1"].nsnap = 4 /\ displays["d1"].nrender = 4
    /\ displays["d1"].lastsnap = [k \in {"rho", "sigma"} |-> IF k = "rho" THEN 1 ELSE 0]
    /\ displays["d1"].rendered = 0
    /\ displays["d2"].nsnap = 4 /\ displays["d2"].nraised = 4

\* the position of display d among the slots of state_changed
SlotOf(d) == CHOOSE i \in DOMAIN subscribers : subscribers[i] = d

\* the step is a control's _on_change with one modify_state: a user operation
\* that is no flush
ControlStep == ops' = ops + 1 /\ nmodify' = nmodify + 1

\* the control whose signal the step's modify_state wrote, by the key of the
\* write the handler began with
ChangedControl ==
    CHOOSE c \in ControlIds : controls[c].key = trace'.events[1].of

\* C26: when a display raises in the broadcast of a modify_state(signal), the
\* storage holds signal.value under signal.key afterwards, and every display
\* connected before it that does not raise itself has computed and rendered
\* the new snapshot
C26_RaiseKeepsWriteAndEarlierDisplays ==
    [][ \A d \in DisplayIds :
           ( /\ ControlStep
             /\ Subscribed(d)
             /\ displays'[d].nraised = displays[d].nraised + 1 )
           => /\ storage'[controls[ChangedControl].key] = controls'[ChangedControl].value
              /\ \A k \in DOMAIN storage \ {controls[ChangedControl].key} :
                    storage'[k] = storage[k]
              /\ \A e \in DisplayIds :
                    ( /\ Subscribed(e) /\ SlotOf(e) < SlotOf(d)
                      /\ displays'[e].nraised = displays[e].nraised )
                    => /\ RanCycle(e)
                       /\ displays'[e].lastsnap = storage'
                       /\ displays'[e].rendered = ResultOf(e, storage') ]_vars

\* C26 witness: sigma was moved from 0 to 1; the display connected second,
\* def f(rho), raised on each of its three snapshots, the first display,
\* def f(rho, sigma), rendered each, the last with the new sigma
C26_Witness ==
    /\ subscribers = <<"d1", "d2">>
    /\ Named(CallbackOf("d1").func) = {"rho", "sigma"}
    /\ Named(CallbackOf("d2").func) = {"rho"} /\ ~HasVarKeyword(CallbackOf("d2").func)
    /\ ops = 2
    /\ displays["d2"].nraised = 3 /\ displays["d2"].nrender = 0
    /\ displays["d1"].nrender = 3 /\ displays["d1"].nraised = 0
    /\ storage["sigma"] = 1 /\ storage["rho"] = 1
    /\ displays["d1"].rendered = 2

\* every variable a handler works on, as it is now
Now == [World EXCEPT !.trace = trace]

\* world w as it would be had VIEWER_DEBUG not been set
Quiet(w) == [w EXCEPT !.perf = NewPerflog(FALSE)]

\* C27: with VIEWER_DEBUG set, every handler leaves the storage, the callbacks
\* and the displays (what they received, computed, rendered and raised) and
\* the order of its events exactly as the undecorated methods leave them from
\* the same state, and ends with the same exception or none
C27_PerflogKeepsControlFlow ==
    [][ /\ ControlStep =>
              LET c == ChangedControl
                  r == _on_change(Quiet([World EXCEPT !.controls[c].value =
                                                          controls'[c].value]), c)
              IN  Quiet(Now') = r.w /\ raised' = r.raised
        /\ (ops' = ops + 1 /\ nflush' = nflush + 1) =>
              Quiet(Now') = flush(Quiet(World))
        /\ \A ds \in Orders(DisplayIds), cs \in Orders(ControlIds) :
              ConfigureState(ds, cs) =>
                 LET r == configure_state(Quiet(World), ds, cs)
                 IN  Quiet(Now') = r.w /\ raised' = r.raised ]_vars

\* C27 witness: with VIEWER_DEBUG set, two controls changed after the
\* binding: one line per control change, and one compute and one render line
\* per snapshot of the display that renders; the other display raised
C27_Witness ==
    /\ perf.flag_should_log
    /\ ops = 2 /\ nmodify = 4
    /\ perf.printed["full-interaction"] = 2
    /\ perf.printed["callback-compute"] = 3
    /\ perf.printed["pyqtgraph-render"] = 3
    /\ displays["d2"].nrender = 3 /\ displays["d1"].nraised = 3

\* the number a string of lowercase hexadecimal digits denotes, -1 if a
\* character is no such digit
RECURSIVE HexValue(_)
HexValue(digits) ==
    IF digits = <<>> THEN 0
    ELSE LET last == digits[Len(digits)]
             rest == HexValue(SubSeq(digits, 1, Len(digits) - 1))
         IN  IF rest < 0 \/ \A i \in DOMAIN HexDigits : HexDigits[i] # last THEN -1
             ELSE 16 * rest + (CHOOSE i \in DOMAIN HexDigits : HexDigits[i] = last) - 1

RECURSIVE Pow16(_)
Pow16(k) == IF k = 0 THEN 1 ELSE 16 * Pow16(k - 1)

\* generate_identifier returned the successive integers from 0 as lowercase
\* hexadecimal, never the same string twice, and the widgets hold what it
\* returned
SuccessiveIdentifiers ==
    /\ \A i \in DOMAIN idmanager.issued : HexValue(idmanager.issued[i]) = i - 1
    /\ \A i, j \in DOMAIN idmanager.issued :
          i # j => idmanager.issued[i] # idmanager.issued[j]
    /\ idmanager.issued # <<>> =>
          idmanager.has_singleton /\ idmanager.counter = Len(idmanager.issued)
    /\ \A c \in DOMAIN controls, d \in DOMAIN displays :
          /\ controls[c] # NoWidget =>
                \E i \in DOMAIN idmanager.issued : idmanager.issued[i] = controls[c].identifier
          /\ (controls[c] # NoWidget /\ displays[d] # NoWidget) =>
                controls[c].identifier # displays[d].identifier

Recorded == trace.events

CountBefore(kinds, i) ==
    Cardinality({k \in 1..(i - 1) : Recorded[k].event \in kinds})

\* a broadcast, or a display's handling of a snapshot, is under way just
\* before the i-th event
InBroadcast(i) == CountBefore({"emit"}, i) > CountBefore({"emitted"}, i)

InDisplay(i) == CountBefore({"begin"}, i) > CountBefore({"end", "raise"}, i)

\* the displays that began to handle the broadcast emitted at event i, in
\* order
BegunAfter(i) ==
    LET j == CHOOSE m \in (i + 1)..Len(Recorded) :
                /\ Recorded[m].event = "emitted"
                /\ \A n \in (i + 1)..(m - 1) : Recorded[n].event # "emitted"
        begins == SelectSeq(SubSeq(Recorded, i, j), LAMBDA e : e.event = "begin")
    IN  [k \in DOMAIN begins |-> begins[k].of]

\* C30: in every handler, a display's dirty-check, compute and render follow
\* each other with no event of another display or of the hub between them, the
\* displays handle a broadcast one after the other in connection order, and
\* no storage write and no other broadcast starts before a broadcast has ended
C30_BroadcastsNeverInterleave ==
    /\ ~InBroadcast(Len(Recorded) + 1) /\ ~InDisplay(Len(Recorded) + 1)
    /\ \A i \in DOMAIN Recorded :
          LET e == Recorded[i] IN
             /\ e.event \in {"write", "emit"} => ~InBroadcast(i) /\ ~InDisplay(i)
             /\ e.event = "emit" => BegunAfter(i) \in {<<>>, subscribers}
             /\ e.event = "begin" => InBroadcast(i) /\ ~InDisplay(i)
             /\ e.event = "emitted" => InBroadcast(i) /\ ~InDisplay(i)
             /\ e.event \in {"should_run", "compute", "render", "end", "raise"} =>
                   /\ InDisplay(i)
                   /\ Recorded[i - 1].of = e.of
                   /\ Recorded[i - 1].event \in
                         IF e.event = "should_run" THEN {"begin"}
                         ELSE IF e.event = "compute" THEN {"should_run"}
                         ELSE IF e.event = "render" THEN {"compute"}
                         ELSE IF e.event = "raise" THEN {"should_run", "compute"}
                         ELSE {"should_run", "render"}

\* C30 witness: a timer tick of a bound animator: the write, then the
\* broadcast in which the first display checks, computes and renders before
\* the second begins, which skips
C30_Witness ==
    /\ Animator.last_op = "on_tick"
    /\ subscribers = <<"d1", "d2">>
    /\ Recorded = << Event("write", "animation_tick"), Event("emit", "state_changed"),
                    Event("begin", "d1"), Event("should_run", "d1"),
                    Event("compute", "d1"), Event("render", "d1"), Event("end", "d1"),
                    Event("begin", "d2"), Event("should_run", "d2"), Event("end", "d2"),
                    Event("emitted", "state_changed") >>

\* C31 (as claimed): a binding that raises the duplicate-key ValueError has
\* connected no control to modify_state and left the hub's storage as it was
C31_DuplicateKeyRaisesBeforeWiring ==
    [][ (ops' = ops /\ raised' = "ValueError") =>
           /\ \A c \in DOMAIN controls :
                 controls'[c].connections = controls[c].connections
           /\ storage' = storage ]_vars

\* C32 (as claimed): two bound displays hold the same caching Callback; each
\* of them runs one compute+render cycle for every snapshot after its first in
\* which a tracked parameter differs from the snapshot before
C32_SharedCallbackEachDisplayRecomputes ==
    [][ \A d \in DisplayIds :
           ( /\ Subscribed(d) /\ Caching(d)
             /\ \E e \in DisplayIds \ {d} : displays[e].callback = displays[d].callback
             /\ displays[d].nsnap >= 1
             /\ GotSnapshot(d)
             /\ \E k \in Tracked(d) : displays'[d].lastsnap[k] # displays[d].lastsnap[k] )
           => RanCycle(d) ]_vars

\* C33 (as claimed): reverse() with the tick at 0 raises nothing, leaves the
\* tick at the top of the unsigned range and emits a signal with that value,
\* and a forward() that follows takes the tick back to 0
C33_ReverseAtZeroWraps ==
    [][ /\ (Reverse("animator") /\ Animator.value = 0) =>
              /\ raised' = "none"
              /\ Animator'.value = TickModulus - 1
              /\ EmittedTick
        /\ ( /\ Forward("animator")
             /\ Animator.last_op = "reverse" /\ Animator.before.value = 0 )
           => Animator'.value = 0 ]_vars

\* C34: a VisualizerControlSignal with an empty key is never made (the
\* operation that tries ends with ValueError), so the storage, the snapshots
\* and the signals passed to modify_state never have an empty key
C34_NoEmptyKey ==
    /\ "" \notin DOMAIN storage
    /\ "" \notin DOMAIN trace.latest
    /\ \A d \in DisplayIds : "" \notin DOMAIN displays[d].lastsnap
    /\ \A i \in DOMAIN trace.events : trace.events[i].of # ""

\* C34 witness: a control with an empty key was bound after a control with the
\* key sigma: it is connected, its push raised ValueError, and so did its
\* change and a modify_state with a signal of an empty key; only sigma is stored
C34_Witness ==
    /\ controls["c_rho"].key = "" /\ controls["c_rho"].connections = 1
    /\ controls["c_sigma"].key = "sigma" /\ controls["c_sigma"].connections = 1
    /\ raised = "ValueError"
    /\ ops = 3 /\ nmodify = 2
    /\ DOMAIN storage = {"sigma"}
    /\ trace.latest = storage

\* C35: after every step the storage maps each key to the value of the latest
\* signal passed to modify_state with that key, no step removes a key from the
\* storage, a flush changes nothing in it, and the keys of the snapshots a
\* display receives never get fewer
C35_StorageHoldsLatestSignals ==
    [][ /\ storage' = trace'.latest
        /\ DOMAIN storage \subseteq DOMAIN storage'
        /\ nmodify' = nmodify => storage' = storage
        /\ \A d \in DisplayIds :
              displays[d].nsnap >= 1 =>
                 DOMAIN displays[d].lastsnap \subseteq DOMAIN displays'[d].lastsnap ]_vars

\* C35 witness: sigma was written by the binding and twice more by
\* modify_state, rho only by the binding; after a flush the storage holds the
\* latest value of each
C35_Witness ==
    /\ nmodify = 4 /\ nflush = 2 /\ ops = 3
    /\ DOMAIN storage = {"rho", "sigma"}
    /\ storage["sigma"] = 0 /\ storage["rho"] = 1
    /\ trace.latest = storage
    /\ \A i \in DOMAIN trace.events : trace.events[i].event # "write"
    /\ displays["d2"].nsnap = 4
    /\ displays["d2"].lastsnap = storage

\* C36: once the animator is bound, after every step the hub stores the
\* animator's tick under "animation_tick", and every on_tick, forward, reverse
\* and reset delivers to every bound display one snapshot with that tick
C36_StoredTickIsTheTick ==
    [][ Animator'.connections > 0 =>
           /\ "animation_tick" \in DOMAIN storage'
           /\ storage'["animation_tick"] = Animator'.value
           /\ (TickStep /\ Animator.connections > 0) =>
                 \A d \in DisplayIds :
                    Subscribed(d) =>
                       /\ GotSnapshot(d)
                       /\ displays'[d].lastsnap["animation_tick"] = Animator'.value ]_vars

\* C36 witness: a bound animator after forward(), on_tick() and reverse(): the
\* hub and the last snapshot of both displays hold the tick, 1
C36_Witness ==
    /\ Animator.connections = 1
    /\ Animator.last_op = "reverse" /\ Animator.prev_op = "on_tick"
    /\ Animator.value = 1 /\ Animator.before.value = 2
    /\ storage["animation_tick"] = 1
    /\ \A d \in DisplayIds :
          /\ Subscribed(d) /\ displays[d].nsnap = 4
          /\ displays[d].lastsnap["animation_tick"] = 1

\* C37: pause_play() changes the timer and nothing else: the tick, the
\* storage, the displays and the callbacks' caches are as before, no
\* modify_state and no flush ran and no broadcast was emitted
C37_PausePlayOnlyTogglesTimer ==
    [][ Animator'.toggled # Animator.toggled =>
           /\ Animator'.timer.active # Animator.timer.active
           /\ Animator'.value = Animator.value
           /\ Animator'.connections = Animator.connections
           /\ controls'["c_sigma"] = controls["c_sigma"]
           /\ storage' = storage
           /\ nmodify' = nmodify /\ nflush' = nflush /\ emitted' = emitted
           /\ displays' = displays
           /\ callbacks' = callbacks
           /\ subscribers' = subscribers
           /\ raised' = "none" ]_vars

\* C37 witness: a bound animator that ticked once and was then paused: the
\* hub still stores 1 and the displays have the two snapshots they had
C37_Witness ==
    /\ Animator.connections = 1
    /\ Animator.last_op = "pause_play" /\ Animator.prev_op = "on_tick"
    /\ ~Animator.timer.active /\ Animator.before.active
    /\ Animator.value = 1 /\ storage["animation_tick"] = 1
    /\ nmodify = 3 /\ emitted = 4
    /\ \A d \in DisplayIds : displays[d].nsnap = 2

\* C38 (as claimed): a bound display with a tracking cache whose callback can
\* be called with the keys of the storage handles every snapshot after its
\* first without an exception: should_run returns, and the display runs one
\* compute+render cycle or none
C38_DirtyCheckCompletes ==
    [][ \A d \in DisplayIds :
           ( /\ Subscribed(d) /\ Caching(d) /\ Tracked(d) # {}
             /\ Accepts(d)
             /\ displays[d].nsnap >= 1
             /\ GotSnapshot(d) )
           => /\ displays'[d].nraised = displays[d].nraised
              /\ RanCycle(d) \/ RanNothing(d) ]_vars

\* C39 (as claimed): the animator's interval is 1000 / ups rounded to the
\* nearest integer, it is at least 1, and interval * ups >= 1000: the timer
\* ticks no more often than ups times a second
C39_IntervalBoundsTheRate ==
    /\ 2 * Animator.tick_time * Animator.ups <= 2000 + Animator.ups
    /\ 2 * Animator.tick_time * Animator.ups >= 2000 - Animator.ups
    /\ Animator.tick_time >= 1
    /\ Animator.tick_time * Animator.ups >= 1000
    /\ Animator.timer.active => Animator.timer.interval = Animator.tick_time
====
